---- MODULE Spec2Model ----
(***************************************************************************)
(* netvis: the capture reader, the packet parser and the replay engine.    *)
(*                                                                         *)
(* Spec and FairSpec model one SimulatedCapture object of                  *)
(* electron/pcap/pcapReader.js together with the timers it arms on the     *)
(* Node event loop.  Its fields are the variables packets .. timeScale;    *)
(* `armed` is the set of timeouts of the event loop that will still call   *)
(* sendPacket, and the history variables record what the callbacks         *)
(* observed.                                                               *)
(*                                                                         *)
(* ReaderSpec models one readPcapFile call on a classic capture: the data  *)
(* and end handlers of parsePcapStream, fed the bytes of the file in       *)
(* chunks of any size.  ParserSpec models one call of parsePacket of       *)
(* electron/pcap/packetParser.js on a frame.                               *)
(***************************************************************************)
EXTENDS Integers, Sequences, FiniteSets, TLC

\* ------------------------------------------------------------------ bounds
\* Largest number of records in a capture file offered to loadFile.
MaxPackets == 3
\* Largest number of records in a capture file offered to readPcapFile.
MaxRecords == 2
\* Largest number of timeouts armed on the event loop at one time; start()
\* is not offered when one more timeout would exceed it.
MaxTimers == 2

\* --------------------------------------------------------------- constants
\* Speeds are held in tenths: 10 is the multiplier 1.0.
DefaultSpeed == 10
MinSpeed == 5
MaxSpeed == 100
\* Delay in ms used when fewer than two packets are loaded.
DefaultTimeScale == 100
\* Divisor of the capture's duration in start().
Compaction == 10
\* Minimum file length accepted by loadFile.
GlobalHeaderLen == 24
\* Length of a record header.
RecordHeaderLen == 16
\* Frames between two progress reports of a read.
ProgressEvery == 1000
\* Block types and lengths of parsePcapNgStream.
BlockTypeIDB == 1
BlockTypeEPB == 6
BlockTypeSPB == 3
NgBlockHead == 8
NgMinBlock == 12
NgMinBlockData == 20
NgPacketDataAt == 24

\* Header lengths and protocol numbers of packetParser.js.
EthernetLen == 14
IpMinLen == 20
TcpMinLen == 20
UdpLen == 8
IcmpMinLen == 8
LinkTypeEthernet == 1
ProtoICMP == 1
ProtoTCP == 6
ProtoUDP == 17
\* packet.ip is absent: protocol = null.
NoProtocol == 0 - 1
\* packet.etherType is absent.
NoEtherType == 0 - 1

\* Inputs of parsePacket: link-types, EtherTypes, first IP bytes, an IP
\* protocol without a decoder, TCP flags bytes and frame sizes.
LinkTypeCooked == 113
LinkTypeRaw == 12
LinkTypeNull == 0
LinkTypeOther == 105
EtherTypeIPv4 == 2048
EtherTypeARP == 2054
IpV4Ihl5 == 69
IpV6First == 96
ProtoOther == 47
FlagSyn == 2
FlagSynAck == 18
ShortFrame == 10
FullFrame == 128
FrameTail == 16

\* The capture files: version 2.4, a snaplen, the timestamps of the records,
\* where a file is cut, and the chunk sizes of the stream.
VersionMajor == 2
VersionMinor == 4
Snaplen == 64
ExampleSec == 1000
ExampleUsec == 500000
OddUsec == 501500
CutInHeader == 10
HalfHeader == 12
\* PCAPNG inputs: the Section Header Block's type and byte-order magic,
\* a block type the reader does not know, a timestamp in file units, and
\* the number of blocks after the first Interface Description Block.
MagicNg == <<10, 13, 13, 10>>
ByteOrderMagic == <<77, 60, 43, 26>>
BlockTypeOther == 5
NgTicks == 5000000
MaxBlocks == 2
\* Statistics inputs: list length, number of calls, and a second frame length.
MaxStatPackets == 2
MaxStatCalls == 2
StatLength == 60
\* Bytes of one data event of a long capture.
BulkChunk == 1024
ChunkSizes == {1, HalfHeader, GlobalHeaderLen}

\* null, for the callbacks.
Null == "null"
\* this.timer = null: no handle.
NoTimer == 0
\* A missing or zero options.speed.
NoSpeed == 0
\* this.timeScale before the first start().
TimeScaleUnset == <<0, 0>>
\* No delay: this.timer holds no pending timeout.
NoDelay == <<0, 0>>
\* No argument: the last operation was not setSpeed.
NoArg == 0

\* An operation that invoked no callback.
NoCalls == [packet |-> FALSE, stats |-> FALSE]

\* Speed options, in tenths, offered to start(): below and above the range
\* setSpeed() clamps into.
SpeedInputs == {2, 150}
\* Speed arguments, in tenths, offered to setSpeed(): below, inside and above
\* its range.
SetSpeedInputs == {2, 10, 150}
\* The closures handed to start(): a call passes a packet and a stats callback.
Callbacks == {"cb1", "cb2"}

TimerIds == 1..MaxTimers

\* Timestamps of the records of the capture files, in ms.
BaseTime == 1000
GapTime == 100

\* The packet parsePacket returns for record i of a capture: its number and
\* its timestamp are what the replay engine reads.
Packet(i) == [number |-> i, timestamp |-> BaseTime + (i - 1) * GapTime]

PacketList(n) == [i \in 1..n |-> Packet(i)]

\* Files offered to loadFile: a missing file, one shorter than the global
\* header, one with an unrecognised magic, and well-formed captures of
\* 0..MaxPackets complete records without payload.
Files ==
  {[kind |-> "missing", size |-> 0, records |-> 0],
   [kind |-> "short", size |-> GlobalHeaderLen - 1, records |-> 0],
   [kind |-> "badmagic", size |-> GlobalHeaderLen, records |-> 0]}
  \cup {[kind |-> "pcap", size |-> GlobalHeaderLen + RecordHeaderLen * n, records |-> n] :
          n \in 0..MaxPackets}

VARIABLES
  packets,         \* this.packets
  currentIndex,    \* this.currentIndex
  isCapturing,     \* this.isCapturing
  isPaused,        \* this.isPaused
  speed,           \* this.speed, in tenths
  timer,           \* this.timer: NoTimer or the handle of the last timeout armed
  packetCallback,  \* this.packetCallback
  statsCallback,   \* this.statsCallback
  timeScale,       \* this.timeScale as <<numerator, denominator>>
  armed,           \* handles of the timeouts still pending on the event loop
  delayOf,         \* the delay the pending timeout in this.timer was armed with, as
                   \* <<numerator, denominator>> of ms
  delivered,       \* history: packetCallback invocations since the index was last reset
  lastStats,       \* history: <<argument of the last statsCallback invocation>> since then
  calls,           \* history: the callbacks the last operation invoked
  lastOp,          \* history: the last operation that ran
  lastResult,      \* history: how it ended
  lastArg,         \* history: the argument of setSpeed, when that was the last operation
  quiet,           \* history: a pause()/stop() returned, no resume()/start() called since
  uninterrupted    \* history: started from Loaded, no pause/stop/load/reset since

fields == <<packets, currentIndex, isCapturing, isPaused, speed, timer,
            packetCallback, statsCallback, timeScale>>
history == <<delivered, lastStats, calls, lastOp, lastResult, lastArg, quiet, uninterrupted>>
replayVars == <<fields, armed, delayOf, history>>

\* ------------------------------------------------------------ constructor
SessionInit ==
  /\ packets = <<>>
  /\ currentIndex = 0
  /\ isCapturing = FALSE
  /\ isPaused = FALSE
  /\ speed = DefaultSpeed
  /\ timer = NoTimer
  /\ packetCallback = Null
  /\ statsCallback = Null
  /\ timeScale = TimeScaleUnset
  /\ armed = {}
  /\ delayOf = NoDelay
  /\ delivered = <<>>
  /\ lastStats = <<>>
  /\ calls = NoCalls
  /\ lastOp = "new"
  /\ lastResult = "ok"
  /\ lastArg = NoArg
  /\ quiet = FALSE
  /\ uninterrupted = FALSE

\* ---------------------------------------------------------------- helpers
\* progress: (index / total) * 100, kept as its integer part.
Progress(index, total) == (index * 100) \div total

\* options.speed || 1.0
SpeedOption(s) == IF s = NoSpeed THEN DefaultSpeed ELSE s

Min(a, b) == IF a < b THEN a ELSE b
Max(a, b) == IF a > b THEN a ELSE b

\* Variant of ClampSpeed: only the upper limit is applied.
ClampSpeedNoFloor(s) == Min(MaxSpeed, s)

\* Math.max(0.5, Math.min(10, speed))
ClampSpeed(s) == Max(MinSpeed, Min(MaxSpeed, s))

\* The timing computed by start().
TimeScaleOf(pkts) ==
  IF Len(pkts) > 1
  THEN <<pkts[Len(pkts)].timestamp - pkts[1].timestamp, Len(pkts) * Compaction>>
  ELSE <<DefaultTimeScale, 1>>

\* setTimeout: a handle no pending timeout has.
FreshTimer(pending) == CHOOSE t \in TimerIds : t \notin pending /\ \A u \in TimerIds : u < t => u \in pending

\* clearTimeout(h): a handle that already fired clears nothing.
ClearTimeout(pending, h) == pending \ {h}

\* const delay = this.timeScale / this.speed, with the speed in tenths.
Delay(scale, spd) == <<scale[1] * 10, scale[2] * spd>>

\* Variant of SendGuard: the early return does not test isPaused.
SendGuardIgnoresPause(capturing, paused, index, total) ==
  ~capturing \/ index >= total

\* The early return of sendPacket.
SendGuard(capturing, paused, index, total) ==
  ~capturing \/ paused \/ index >= total

\* Variant of NextIndex: the index advances past a packet that was not sent.
NextIndexSkips(index) == index + 2

\* The index after a delivery.
NextIndex(index) == index + 1

\* The argument sendPacket hands to statsCallback.
StatsEvent(capturing, paused, index, total) ==
  [isCapturing |-> capturing, isPaused |-> paused, currentIndex |-> index,
   totalPackets |-> total, progress |-> Progress(index, total)]

\* sendPacket(), called with the flags, index, callbacks, pending timeouts,
\* timeScale and speed its caller left.  It sets isCapturing, currentIndex, timer, armed and the
\* record of the callbacks it invoked.
SendPacket(capturing, paused, index, pcb, scb, pending, scale, spd) ==
  IF SendGuard(capturing, paused, index, Len(packets))
  THEN /\ isCapturing' = IF index >= Len(packets) THEN FALSE ELSE capturing
       /\ currentIndex' = index
       /\ armed' = pending
       /\ delayOf' = IF timer \in pending THEN delayOf ELSE NoDelay
       /\ calls' = NoCalls
       /\ UNCHANGED <<timer, delivered, lastStats>>
  ELSE /\ delivered' = IF pcb # Null
                       THEN Append(delivered, [index |-> index, packet |-> packets[index + 1]])
                       ELSE delivered
       /\ lastStats' = IF scb # Null
                       THEN <<StatsEvent(capturing, paused, index, Len(packets))>>
                       ELSE lastStats
       /\ calls' = [packet |-> pcb # Null, stats |-> scb # Null]
       /\ currentIndex' = NextIndex(index)
       /\ timer' = FreshTimer(pending)
       /\ armed' = pending \cup {FreshTimer(pending)}
       /\ delayOf' = Delay(scale, spd)
       /\ isCapturing' = capturing

\* ------------------------------------------------------------- operations
\* Variant of LoadFile: a successful load replaces the buffer and clears the
\* flags but leaves currentIndex where the earlier run stopped.
LoadFileKeepsIndex ==
  \E f \in Files :
    /\ lastOp' = "loadFile"
    /\ lastArg' = NoArg
    /\ quiet' = quiet
    /\ uninterrupted' = FALSE
    /\ IF f.kind = "missing" \/ f.size < GlobalHeaderLen \/ f.kind = "badmagic"
       THEN /\ lastResult' = "failure"
            /\ UNCHANGED <<fields, armed, delayOf, delivered, lastStats>>
            /\ calls' = NoCalls
       ELSE /\ lastResult' = "ok"
            /\ packets' = PacketList(f.records)
            /\ isCapturing' = FALSE
            /\ isPaused' = FALSE
            /\ delivered' = <<>>
            /\ lastStats' = <<>>
            /\ calls' = NoCalls
            /\ UNCHANGED <<currentIndex, speed, timer, packetCallback, statsCallback, timeScale,
                           armed, delayOf>>

\* loadFile(filepath)
LoadFile ==
  \E f \in Files :
    /\ lastOp' = "loadFile"
    /\ lastArg' = NoArg
    /\ quiet' = quiet
    /\ uninterrupted' = FALSE
    /\ IF f.kind = "missing" \/ f.size < GlobalHeaderLen \/ f.kind = "badmagic"
       THEN /\ lastResult' = "failure"
            /\ UNCHANGED <<fields, armed, delayOf, delivered, lastStats>>
            /\ calls' = NoCalls
       ELSE /\ lastResult' = "ok"
            /\ packets' = PacketList(f.records)
            /\ currentIndex' = 0
            /\ isCapturing' = FALSE
            /\ isPaused' = FALSE
            /\ delivered' = <<>>
            /\ lastStats' = <<>>
            /\ calls' = NoCalls
            /\ UNCHANGED <<speed, timer, packetCallback, statsCallback, timeScale, armed, delayOf>>

\* Variant of Start: the callbacks and the speed are stored before the
\* check for an empty buffer.
StartAssignsFirst ==
  \E cb \in Callbacks, s \in SpeedInputs \cup {NoSpeed} :
    /\ lastOp' = "start"
    /\ lastArg' = NoArg
    /\ quiet' = FALSE
    /\ packetCallback' = cb
    /\ statsCallback' = cb
    /\ speed' = SpeedOption(s)
    /\ IF Len(packets) = 0
       THEN /\ lastResult' = "throw"
            /\ calls' = NoCalls
            /\ UNCHANGED <<packets, currentIndex, isCapturing, isPaused, timer, timeScale,
                           armed, delayOf, delivered, lastStats, uninterrupted>>
       ELSE /\ Cardinality(armed) < MaxTimers
            /\ lastResult' = "ok"
            /\ isPaused' = FALSE
            /\ timeScale' = TimeScaleOf(packets)
            /\ uninterrupted' = IF ~isCapturing /\ currentIndex = 0 THEN TRUE ELSE uninterrupted
            /\ SendPacket(TRUE, FALSE, currentIndex, cb, cb, armed, TimeScaleOf(packets),
                       SpeedOption(s))
            /\ UNCHANGED packets

\* start(packetCallback, statsCallback, options)
Start ==
  \E cb \in Callbacks, s \in SpeedInputs \cup {NoSpeed} :
    /\ lastOp' = "start"
    /\ lastArg' = NoArg
    /\ quiet' = FALSE
    /\ IF Len(packets) = 0
       THEN /\ lastResult' = "throw"
            /\ calls' = NoCalls
            /\ UNCHANGED <<fields, armed, delayOf, delivered, lastStats, uninterrupted>>
       ELSE /\ Cardinality(armed) < MaxTimers
            /\ lastResult' = "ok"
            /\ packetCallback' = cb
            /\ statsCallback' = cb
            /\ speed' = SpeedOption(s)
            /\ isPaused' = FALSE
            /\ timeScale' = TimeScaleOf(packets)
            /\ uninterrupted' = IF ~isCapturing /\ currentIndex = 0 THEN TRUE ELSE uninterrupted
            /\ SendPacket(TRUE, FALSE, currentIndex, cb, cb, armed, TimeScaleOf(packets),
                       SpeedOption(s))
            /\ UNCHANGED packets

\* The callback of a timeout armed by sendPacket.
TimerFire ==
  \E t \in armed :
    /\ lastOp' = "timer"
    /\ lastArg' = NoArg
    /\ lastResult' = "ok"
    /\ SendPacket(isCapturing, isPaused, currentIndex, packetCallback, statsCallback,
                  armed \ {t}, timeScale, speed)
    /\ UNCHANGED <<packets, isPaused, speed, packetCallback, statsCallback, timeScale,
                   quiet, uninterrupted>>

\* Variant of Pause: the timeout is cancelled but isPaused is not set.
PauseOnlyCancels ==
  /\ lastOp' = "pause"
  /\ lastArg' = NoArg
  /\ lastResult' = "ok"
  /\ quiet' = TRUE
  /\ uninterrupted' = FALSE
  /\ IF isCapturing /\ ~isPaused
     THEN /\ armed' = IF timer # NoTimer THEN ClearTimeout(armed, timer) ELSE armed
          /\ delayOf' = NoDelay
          /\ timer' = NoTimer
     ELSE UNCHANGED <<armed, delayOf, timer>>
  /\ calls' = NoCalls
  /\ UNCHANGED <<packets, currentIndex, isCapturing, isPaused, speed, packetCallback,
                 statsCallback, timeScale, delivered, lastStats>>

\* pause()
Pause ==
  /\ lastOp' = "pause"
  /\ lastArg' = NoArg
  /\ lastResult' = "ok"
  /\ quiet' = TRUE
  /\ uninterrupted' = FALSE
  /\ IF isCapturing /\ ~isPaused
     THEN /\ isPaused' = TRUE
          /\ armed' = IF timer # NoTimer THEN ClearTimeout(armed, timer) ELSE armed
          /\ delayOf' = NoDelay
          /\ timer' = NoTimer
     ELSE UNCHANGED <<isPaused, armed, delayOf, timer>>
  /\ calls' = NoCalls
  /\ UNCHANGED <<packets, currentIndex, isCapturing, speed, packetCallback,
                 statsCallback, timeScale, delivered, lastStats>>

\* Variant of Resume: the packet sent before the pause is sent again.
ResumeRewinds ==
  /\ lastOp' = "resume"
  /\ lastArg' = NoArg
  /\ lastResult' = "ok"
  /\ quiet' = FALSE
  /\ IF isCapturing /\ isPaused
     THEN /\ isPaused' = FALSE
          /\ SendPacket(isCapturing, FALSE, Max(0, currentIndex - 1), packetCallback,
                        statsCallback, armed, timeScale, speed)
     ELSE /\ calls' = NoCalls
          /\ UNCHANGED <<isPaused, isCapturing, currentIndex, timer, armed, delayOf, delivered,
                         lastStats>>
  /\ UNCHANGED <<packets, speed, packetCallback, statsCallback, timeScale, uninterrupted>>

\* Variant of Resume: isPaused is not tested.
ResumeUnguarded ==
  /\ lastOp' = "resume"
  /\ lastArg' = NoArg
  /\ lastResult' = "ok"
  /\ quiet' = FALSE
  /\ IF isCapturing
     THEN /\ isPaused' = FALSE
          /\ SendPacket(isCapturing, FALSE, currentIndex, packetCallback, statsCallback, armed,
                        timeScale, speed)
     ELSE /\ calls' = NoCalls
          /\ UNCHANGED <<isPaused, isCapturing, currentIndex, timer, armed, delayOf, delivered,
                         lastStats>>
  /\ UNCHANGED <<packets, speed, packetCallback, statsCallback, timeScale, uninterrupted>>

\* Variant of Resume: isPaused is cleared but sendPacket is not called.
ResumeNoSend ==
  /\ lastOp' = "resume"
  /\ lastArg' = NoArg
  /\ lastResult' = "ok"
  /\ quiet' = FALSE
  /\ isPaused' = IF isCapturing /\ isPaused THEN FALSE ELSE isPaused
  /\ calls' = NoCalls
  /\ UNCHANGED <<isCapturing, currentIndex, timer, armed, delayOf, delivered, lastStats>>
  /\ UNCHANGED <<packets, speed, packetCallback, statsCallback, timeScale, uninterrupted>>

\* resume()
Resume ==
  /\ lastOp' = "resume"
  /\ lastArg' = NoArg
  /\ lastResult' = "ok"
  /\ quiet' = FALSE
  /\ IF isCapturing /\ isPaused
     THEN /\ isPaused' = FALSE
          /\ SendPacket(isCapturing, FALSE, currentIndex, packetCallback, statsCallback, armed,
                        timeScale, speed)
     ELSE /\ calls' = NoCalls
          /\ UNCHANGED <<isPaused, isCapturing, currentIndex, timer, armed, delayOf, delivered,
                         lastStats>>
  /\ UNCHANGED <<packets, speed, packetCallback, statsCallback, timeScale, uninterrupted>>

\* The assignments of stop(), shared with reset().
StopBody ==
  /\ isCapturing' = FALSE
  /\ isPaused' = FALSE
  /\ currentIndex' = 0
  /\ armed' = IF timer # NoTimer THEN ClearTimeout(armed, timer) ELSE armed
  /\ delayOf' = NoDelay
  /\ timer' = NoTimer
  /\ delivered' = <<>>
  /\ lastStats' = <<>>
  /\ calls' = NoCalls
  /\ quiet' = TRUE
  /\ uninterrupted' = FALSE

\* Variant of Stop: the flags are cleared and the timeout cancelled, but
\* currentIndex is left where it was.
StopKeepsIndex ==
  /\ lastOp' = "stop"
  /\ lastArg' = NoArg
  /\ lastResult' = "ok"
  /\ isCapturing' = FALSE
  /\ isPaused' = FALSE
  /\ armed' = IF timer # NoTimer THEN ClearTimeout(armed, timer) ELSE armed
  /\ delayOf' = NoDelay
  /\ timer' = NoTimer
  /\ calls' = NoCalls
  /\ quiet' = TRUE
  /\ uninterrupted' = FALSE
  /\ UNCHANGED <<currentIndex, delivered, lastStats>>
  /\ UNCHANGED <<packets, speed, packetCallback, statsCallback, timeScale>>

\* stop()
Stop ==
  /\ lastOp' = "stop"
  /\ lastArg' = NoArg
  /\ lastResult' = "ok"
  /\ StopBody
  /\ UNCHANGED <<packets, speed, packetCallback, statsCallback, timeScale>>

\* reset()
Reset ==
  /\ lastOp' = "reset"
  /\ lastArg' = NoArg
  /\ lastResult' = "ok"
  /\ StopBody
  /\ packets' = <<>>
  /\ packetCallback' = Null
  /\ statsCallback' = Null
  /\ UNCHANGED <<speed, timeScale>>

\* Variant of GetStatus: progress is the fraction, not the percentage.
GetStatusFraction ==
  [isCapturing |-> isCapturing, isPaused |-> isPaused, currentIndex |-> currentIndex,
   totalPackets |-> Len(packets), processedPackets |-> currentIndex,
   progress |-> IF Len(packets) > 0 THEN currentIndex \div Len(packets) ELSE 0]

\* The object getStatus() returns.
GetStatus ==
  [isCapturing |-> isCapturing, isPaused |-> isPaused, currentIndex |-> currentIndex,
   totalPackets |-> Len(packets), processedPackets |-> currentIndex,
   progress |-> IF Len(packets) > 0 THEN Progress(currentIndex, Len(packets)) ELSE 0]

\* getStatus()
GetStatusCall ==
  /\ lastOp' = "getStatus"
  /\ lastArg' = NoArg
  /\ lastResult' = "ok"
  /\ calls' = NoCalls
  /\ UNCHANGED <<fields, armed, delayOf, delivered, lastStats, quiet, uninterrupted>>

\* setSpeed(speed)
SetSpeed ==
  \E s \in SetSpeedInputs :
    /\ lastOp' = "setSpeed"
    /\ lastArg' = s
    /\ lastResult' = "ok"
    /\ speed' = ClampSpeed(s)
    /\ calls' = NoCalls
    /\ UNCHANGED <<packets, currentIndex, isCapturing, isPaused, timer, packetCallback,
                   statsCallback, timeScale, armed, delayOf, delivered, lastStats, quiet,
                   uninterrupted>>

\* ----------------------------------------------------------- byte buffers
\* buffer.slice(a, b): the bytes at offsets a .. b-1, clamped to the buffer.
Slice(buffer, a, b) == SubSeq(buffer, Min(a, Len(buffer)) + 1, Min(b, Len(buffer)))

\* buffer.slice(a)
SliceFrom(buffer, a) == Slice(buffer, a, Len(buffer))

\* buffer.readUInt16BE(o), buffer.readUInt16LE(o)
ReadUInt16BE(buffer, o) == buffer[o + 1] * 256 + buffer[o + 2]
ReadUInt16LE(buffer, o) == buffer[o + 2] * 256 + buffer[o + 1]

\* buffer.readUInt32BE(o), buffer.readUInt32LE(o)
ReadUInt32BE(buffer, o) ==
  ((buffer[o + 1] * 256 + buffer[o + 2]) * 256 + buffer[o + 3]) * 256 + buffer[o + 4]
ReadUInt32LE(buffer, o) ==
  ((buffer[o + 4] * 256 + buffer[o + 3]) * 256 + buffer[o + 2]) * 256 + buffer[o + 1]

\* The bytes a writer of the given byte order stores for a 16-bit and a
\* 32-bit field.
U16(v, le) ==
  IF le THEN <<v % 256, v \div 256>> ELSE <<v \div 256, v % 256>>
U32(v, le) ==
  LET b0 == v % 256
      b1 == (v \div 256) % 256
      b2 == (v \div 65536) % 256
      b3 == v \div 16777216
  IN IF le THEN <<b0, b1, b2, b3>> ELSE <<b3, b2, b1, b0>>

\* n bytes of padding.
Zeros(n) == [i \in 1..n |-> 0]

\* ------------------------------------------------------------ packetParser
\* Bit i (from 0) of a byte.
Bit(b, i) == (b \div (2 ^ i)) % 2

\* The flags parseTCP pushes, in its order; the code joins them with ", ".
TcpFlags(b) ==
  (IF Bit(b, 0) = 1 THEN <<"FIN">> ELSE <<>>)
  \o (IF Bit(b, 1) = 1 THEN <<"SYN">> ELSE <<>>)
  \o (IF Bit(b, 2) = 1 THEN <<"RST">> ELSE <<>>)
  \o (IF Bit(b, 3) = 1 THEN <<"PSH">> ELSE <<>>)
  \o (IF Bit(b, 4) = 1 THEN <<"ACK">> ELSE <<>>)
  \o (IF Bit(b, 5) = 1 THEN <<"URG">> ELSE <<>>)

\* parseEthernet(buffer); null is the empty sequence.
ParseEthernet(buffer) ==
  IF Len(buffer) < EthernetLen THEN <<>> ELSE <<[etherType |-> ReadUInt16BE(buffer, 12)]>>

\* parseIP(buffer); null is the empty sequence.
ParseIP(buffer) ==
  IF Len(buffer) < IpMinLen
  THEN <<>>
  ELSE LET version == (buffer[1] \div 16) % 16
           headerLength == (buffer[1] % 16) * 4
       IN IF version # 4 \/ headerLength < IpMinLen \/ Len(buffer) < headerLength
          THEN <<>>
          ELSE <<[headerLength |-> headerLength, protocol |-> buffer[10]]>>

\* parseTCP(buffer); null is the empty sequence.
ParseTCP(buffer) ==
  IF Len(buffer) < TcpMinLen
  THEN <<>>
  ELSE <<[headerLength |-> (buffer[13] \div 16) * 4, flags |-> TcpFlags(buffer[14])]>>

\* parseUDP(buffer); null is the empty sequence.
ParseUDP(buffer) ==
  IF Len(buffer) < UdpLen THEN <<>> ELSE <<[length |-> ReadUInt16BE(buffer, 4)]>>

\* parseICMP(buffer); null is the empty sequence.
ParseICMP(buffer) ==
  IF Len(buffer) < IcmpMinLen THEN <<>> ELSE <<[type |-> buffer[1], code |-> buffer[2]]>>

\* parsePacket(packetData, packetNumber, timestamp, capturedLength, linkType):
\* <<>> for null, else <<packet>>.  Of the packet, the number, timestamp,
\* length, protocol stack, EtherType (NoEtherType when there is no Ethernet
\* layer) and TCP flags are kept.
ParsePacket(packetData, packetNumber, timestamp, capturedLength, linkType) ==
  IF Len(packetData) = 0
  THEN <<>>
  ELSE
    LET ethernet == IF linkType = LinkTypeEthernet /\ Len(packetData) >= EthernetLen
                    THEN ParseEthernet(Slice(packetData, 0, EthernetLen))
                    ELSE <<>>
        offset2 == IF ethernet # <<>> THEN EthernetLen ELSE 0
        ip == IF Len(packetData) > offset2
              THEN ParseIP(SliceFrom(packetData, offset2))
              ELSE <<>>
        offset3 == IF ip # <<>> THEN offset2 + ip[1].headerLength ELSE offset2
        protocol == IF ip # <<>> THEN ip[1].protocol ELSE NoProtocol
        layer4 == Len(packetData) > offset3
        tcp == IF layer4 /\ protocol = ProtoTCP /\ Len(packetData) > offset3 + TcpMinLen
               THEN ParseTCP(SliceFrom(packetData, offset3))
               ELSE <<>>
        udp == IF layer4 /\ protocol = ProtoUDP /\ Len(packetData) > offset3 + UdpLen
               THEN ParseUDP(SliceFrom(packetData, offset3))
               ELSE <<>>
        icmp == IF layer4 /\ protocol = ProtoICMP
                THEN ParseICMP(SliceFrom(packetData, offset3))
                ELSE <<>>
    IN <<[number |-> packetNumber,
          timestamp |-> timestamp,
          length |-> capturedLength,
          protocols |-> (IF ethernet # <<>> THEN <<"Ethernet">> ELSE <<>>)
                        \o (IF ip # <<>> THEN <<"IP">> ELSE <<>>)
                        \o (IF tcp # <<>> THEN <<"TCP">> ELSE <<>>)
                        \o (IF udp # <<>> THEN <<"UDP">> ELSE <<>>)
                        \o (IF icmp # <<>> THEN <<"ICMP">> ELSE <<>>),
          etherType |-> IF ethernet # <<>> THEN ethernet[1].etherType ELSE NoEtherType,
          flags |-> IF tcp # <<>> THEN tcp[1].flags ELSE <<>>]>>

\* Frames handed to parsePacket.  A frame is a link header chosen by the
\* link-type, an IPv4-shaped header and l4 bytes of transport header whose
\* byte 13 is the TCP flags byte, cut to `size` bytes.
LinkHeader(linkType, etherType) ==
  IF linkType = LinkTypeEthernet THEN Zeros(12) \o U16(etherType, FALSE)
  ELSE IF linkType = LinkTypeCooked THEN Zeros(14) \o U16(etherType, FALSE)
  ELSE IF linkType = LinkTypeNull THEN <<2, 0, 0, 0>>
  ELSE <<>>

IpHeader(first, protocol, l4) ==
  <<first>> \o <<0>> \o U16(IpMinLen + l4, FALSE) \o Zeros(5) \o <<protocol>> \o Zeros(2)
  \o <<10, 0, 0, 1>> \o <<10, 0, 0, 2>>

TransportHeader(flags, l4) ==
  Slice(Zeros(12) \o <<80, flags>> \o Zeros(FrameTail), 0, l4)

FrameBytes(f) ==
  LET bytes == LinkHeader(f.linkType, f.etherType) \o IpHeader(f.first, f.protocol, f.l4)
               \o TransportHeader(f.flags, f.l4)
  IN Slice(bytes, 0, Min(f.size, Len(bytes)))

Frames ==
  [linkType : {LinkTypeEthernet, LinkTypeCooked, LinkTypeRaw, LinkTypeNull, LinkTypeOther},
   etherType : {EtherTypeIPv4, EtherTypeARP},
   first : {IpV4Ihl5, IpV6First},
   protocol : {ProtoTCP, ProtoUDP, ProtoICMP, ProtoOther},
   flags : {FlagSyn, FlagSynAck},
   l4 : {0, UdpLen, UdpLen + 1, TcpMinLen, TcpMinLen + 1},
   size : {ShortFrame, FullFrame}]

\* The frame of the documented example: Ethernet, EtherType 0x0800, IPv4
\* with protocol 6 and a 20-byte TCP header with flags 0x02: 54 bytes.
SynFrame ==
  [linkType |-> LinkTypeEthernet, etherType |-> EtherTypeIPv4, first |-> IpV4Ihl5,
   protocol |-> ProtoTCP, flags |-> FlagSyn, l4 |-> TcpMinLen, size |-> FullFrame]

VARIABLES
  frame,       \* the frame handed to parsePacket
  parsed,      \* what parsePacket returned: <<>> or <<packet>>
  parseDone    \* parsePacket has returned

parserVars == <<frame, parsed, parseDone>>

\* No parsePacket call is in progress.
ParserIdle ==
  /\ frame = SynFrame
  /\ parsed = <<>>
  /\ parseDone = FALSE

ParserStart ==
  /\ frame \in Frames
  /\ parsed = <<>>
  /\ parseDone = FALSE

\* One call of parsePacket on the frame, as frame 1 of an Ethernet capture
\* or of a capture of the frame's link-type.
Parse ==
  /\ ~parseDone
  /\ parsed' = ParsePacket(FrameBytes(frame), 1, <<BaseTime, 0>>, Len(FrameBytes(frame)),
                           frame.linkType)
  /\ parseDone' = TRUE
  /\ UNCHANGED frame

\* -------------------------------------------------------------- pcapReader
\* The first four bytes of a classic capture, as readUInt32BE(0) sees them:
\* 0xa1b2c3d4, 0xd4c3b2a1, and four bytes that are neither.
MagicBE == <<161, 178, 195, 212>>
MagicLE == <<212, 195, 178, 161>>
MagicBad == <<1, 2, 3, 4>>

\* Variant of ReadUInt32: the byte order of the capture is ignored.
ReadUInt32AlwaysLE(buffer, o, isLittleEndian) == ReadUInt32LE(buffer, o)

\* buffer[readFunc](o) with readFunc chosen by the byte order.
ReadUInt32(buffer, o, isLittleEndian) ==
  IF isLittleEndian THEN ReadUInt32LE(buffer, o) ELSE ReadUInt32BE(buffer, o)

ReadUInt16(buffer, o, isLittleEndian) ==
  IF isLittleEndian THEN ReadUInt16LE(buffer, o) ELSE ReadUInt16BE(buffer, o)

\* parseGlobalHeader(buffer); ok = FALSE stands for the Error it throws.
ParseGlobalHeader(buffer) ==
  LET magicNumber == Slice(buffer, 0, 4)
      ok == magicNumber \in {MagicBE, MagicLE}
      isLittleEndian == magicNumber = MagicLE
  IN [ok |-> ok,
      isLittleEndian |-> isLittleEndian,
      versionMajor |-> IF ok THEN ReadUInt16(buffer, 4, isLittleEndian) ELSE 0,
      versionMinor |-> IF ok THEN ReadUInt16(buffer, 6, isLittleEndian) ELSE 0,
      snaplen |-> IF ok THEN ReadUInt32(buffer, 16, isLittleEndian) ELSE 0,
      linkType |-> IF ok THEN ReadUInt32(buffer, 20, isLittleEndian) ELSE 0]

\* timestampSec * 1000 + timestampUsec / 1000: the division is not
\* truncated, so the value is kept as <<whole ms, thousandths of a ms>>.
Timestamp(timestampSec, timestampUsec) ==
  <<timestampSec * 1000 + timestampUsec \div 1000, timestampUsec % 1000>>

\* packetHeader.capturedLength
CapturedLength(buffer, isLittleEndian) == ReadUInt32(buffer, 8, isLittleEndian)

\* parsePacketHeader(buffer, isLittleEndian)
ParsePacketHeader(buffer, isLittleEndian) ==
  [timestamp |-> Timestamp(ReadUInt32(buffer, 0, isLittleEndian),
                           ReadUInt32(buffer, 4, isLittleEndian)),
   timestampSec |-> ReadUInt32(buffer, 0, isLittleEndian),
   timestampUsec |-> ReadUInt32(buffer, 4, isLittleEndian),
   capturedLength |-> CapturedLength(buffer, isLittleEndian),
   originalLength |-> ReadUInt32(buffer, 12, isLittleEndian)]

\* Variant of Concat: the bytes held back from the previous chunk are lost.
ConcatChunkOnly(left, chunk) == chunk

\* Buffer.concat([leftover, chunk])
Concat(left, chunk) == left \o chunk

\* Variant of RecordBuffered: the header alone is waited for.
RecordBufferedHeaderOnly(left, packetLength) == Len(left) >= RecordHeaderLen

\* The record loop goes on: not (leftover.length < 16 + packetLength).
RecordBuffered(left, packetLength) == Len(left) >= RecordHeaderLen + packetLength

\* Variant of EndOutcome: a stream that ends inside a record is an error.
EndOutcomeStrict(left) == IF Len(left) > 0 THEN "rejected" ELSE "resolved"

\* The end handler resolves, whatever is left in the buffer.
EndOutcome(left) == "resolved"

\* The call of progressCallback after the record numbered n, if it is due.
ProgressDue(n, current, total) ==
  IF n % ProgressEvery = 0
  THEN <<[current |-> current, total |-> total, packets |-> n]>>
  ELSE <<>>

\* The while loop of the data handler.
RECURSIVE ParseRecords(_)
ParseRecords(r) ==
  IF r.globalHeaderParsed /\ Len(r.leftover) >= RecordHeaderLen
  THEN LET head == Slice(r.leftover, 0, RecordHeaderLen)
           packetLength == CapturedLength(head, r.globalEndianness)
       IN IF ~RecordBuffered(r.leftover, packetLength)
          THEN r
          ELSE ParseRecords(
                 [r EXCEPT
                    !.leftover = SliceFrom(r.leftover, RecordHeaderLen + packetLength),
                    !.packets = @ \o ParsePacket(
                                  Slice(r.leftover, RecordHeaderLen,
                                        RecordHeaderLen + packetLength),
                                  r.packetNumber,
                                  ParsePacketHeader(head, r.globalEndianness).timestamp,
                                  packetLength, r.linkType),
                    !.offset = @ + RecordHeaderLen + packetLength,
                    !.progress = @ \o ProgressDue(r.packetNumber,
                                   r.offset + RecordHeaderLen + packetLength,
                                   r.totalSize),
                    !.packetNumber = @ + 1])
  ELSE r

\* The data handler of parsePcapStream, run on one chunk.
DataHandler(r, chunk) ==
  LET buf == Concat(r.leftover, chunk)
  IN IF ~r.globalHeaderParsed
     THEN IF Len(buf) < GlobalHeaderLen
          THEN [r EXCEPT !.leftover = buf]
          ELSE LET globalHeader == ParseGlobalHeader(Slice(buf, 0, GlobalHeaderLen))
               IN IF globalHeader.ok
                  THEN ParseRecords(
                         [r EXCEPT !.linkType = globalHeader.linkType,
                                   !.globalEndianness = globalHeader.isLittleEndian,
                                   !.globalHeaderParsed = TRUE,
                                   !.offset = GlobalHeaderLen,
                                   !.leftover = SliceFrom(buf, GlobalHeaderLen)])
                  ELSE [r EXCEPT !.leftover = buf, !.outcome = "rejected"]
     ELSE ParseRecords([r EXCEPT !.leftover = buf])

\* The end handler of parsePcapStream.
EndHandler(r) ==
  [r EXCEPT !.progress = @ \o <<[current |-> r.totalSize, total |-> r.totalSize,
                                 packets |-> Len(r.packets)]>>,
            !.outcome = EndOutcome(r.leftover)]

\* Records of the capture files: seconds, microseconds and payload bytes.
\* The first is the documented example, the second has microseconds that
\* are not whole milliseconds, the third has no payload.
Record1 == [sec |-> ExampleSec, usec |-> ExampleUsec, payload |-> <<170, 187>>]
Record2 == [sec |-> ExampleSec, usec |-> OddUsec, payload |-> <<204>>]
Record3 == [sec |-> 0, usec |-> 0, payload |-> <<>>]

RecordLists ==
  UNION {[1..n -> {Record1, Record2, Record3}] : n \in 0..MaxRecords}

\* The bytes of a capture file.
GlobalHeaderBytes(magic, linkType) ==
  LET le == magic = "le"
  IN (IF magic = "be" THEN MagicBE ELSE IF le THEN MagicLE ELSE MagicBad)
     \o U16(VersionMajor, le) \o U16(VersionMinor, le) \o U32(0, le) \o U32(0, le)
     \o U32(Snaplen, le) \o U32(linkType, le)

RecordBytes(rec, le) ==
  U32(rec.sec, le) \o U32(rec.usec, le) \o U32(Len(rec.payload), le)
  \o U32(Len(rec.payload), le) \o rec.payload

\* The records one after the other; the list is halved so that long
\* captures do not nest deeply.
RECURSIVE RecordsBytes(_, _)
RecordsBytes(recs, le) ==
  IF recs = <<>> THEN <<>>
  ELSE IF Len(recs) = 1 THEN RecordBytes(recs[1], le)
  ELSE RecordsBytes(SubSeq(recs, 1, Len(recs) \div 2), le)
       \o RecordsBytes(SubSeq(recs, Len(recs) \div 2 + 1, Len(recs)), le)

FullBytes(f) ==
  GlobalHeaderBytes(f.magic, LinkTypeEthernet) \o RecordsBytes(f.records, f.magic = "le")

\* The stream of a file: its bytes up to its size.
StreamOf(f) == Slice(FullBytes(f), 0, f.size)

\* The sizes a file of n bytes is cut to: whole, cut inside the last payload
\* or record header, the global header alone, and less than that.
SizesOf(n) ==
  {k \in {n, n - 1, n - CutInHeader, GlobalHeaderLen, GlobalHeaderLen - 1, HalfHeader, 0} :
     k >= 0}

\* The classic captures offered to readPcapFile.
ReaderFiles ==
  UNION {{[magic |-> m, records |-> recs, size |-> k] :
            k \in SizesOf(Len(FullBytes([magic |-> m, records |-> recs, size |-> 0])))} :
           m \in {"be", "le", "bad"}, recs \in RecordLists}

VARIABLES
  file,                \* the capture being read: byte order, records and size
  received,            \* bytes handed to the data handler so far
  leftover,            \* leftover
  readPackets,         \* packets, the list parsePcapStream builds
  offset,              \* offset
  packetNumber,        \* packetNumber
  globalHeaderParsed,  \* globalHeaderParsed
  linkType,            \* linkType
  globalEndianness,    \* the module's globalEndianness
  outcome,             \* "reading", or how the promise was settled
  progress,            \* history: the calls of progressCallback, in order
  splitSeen            \* history: a data event ended inside the header or a record

readerVars == <<file, received, leftover, readPackets, offset, packetNumber,
                globalHeaderParsed, linkType, globalEndianness, outcome, progress,
                splitSeen>>

\* The locals of parsePcapStream when it returns, with the module's
\* globalEndianness and how the promise stands.
NewReader ==
  [leftover |-> <<>>, packets |-> <<>>, offset |-> 0, packetNumber |-> 1,
   globalHeaderParsed |-> FALSE, linkType |-> 0, globalEndianness |-> FALSE,
   outcome |-> "reading", totalSize |-> file.size, progress |-> <<>>]

\* The reader's state as the record the handlers work on.
Reader ==
  [leftover |-> leftover, packets |-> readPackets, offset |-> offset,
   packetNumber |-> packetNumber, globalHeaderParsed |-> globalHeaderParsed,
   linkType |-> linkType, globalEndianness |-> globalEndianness, outcome |-> outcome,
   totalSize |-> file.size, progress |-> progress]

ReaderBecomes(r) ==
  /\ leftover' = r.leftover
  /\ readPackets' = r.packets
  /\ offset' = r.offset
  /\ packetNumber' = r.packetNumber
  /\ globalHeaderParsed' = r.globalHeaderParsed
  /\ linkType' = r.linkType
  /\ globalEndianness' = r.globalEndianness
  /\ outcome' = r.outcome
  /\ progress' = r.progress

\* readPcapFile was called on a classic capture; no data event yet.
ReaderStart ==
  /\ file \in ReaderFiles
  /\ received = 0
  /\ leftover = NewReader.leftover
  /\ readPackets = NewReader.packets
  /\ offset = NewReader.offset
  /\ packetNumber = NewReader.packetNumber
  /\ globalHeaderParsed = NewReader.globalHeaderParsed
  /\ linkType = NewReader.linkType
  /\ globalEndianness = NewReader.globalEndianness
  /\ outcome = NewReader.outcome
  /\ progress = NewReader.progress
  /\ splitSeen = FALSE

\* No read is in progress.
ReaderIdle ==
  /\ file = [magic |-> "be", records |-> <<>>, size |-> 0]
  /\ received = 0
  /\ leftover = NewReader.leftover
  /\ readPackets = NewReader.packets
  /\ offset = NewReader.offset
  /\ packetNumber = NewReader.packetNumber
  /\ globalHeaderParsed = NewReader.globalHeaderParsed
  /\ linkType = NewReader.linkType
  /\ globalEndianness = NewReader.globalEndianness
  /\ outcome = NewReader.outcome
  /\ progress = NewReader.progress
  /\ splitSeen = FALSE

\* A data event: the stream hands over its next chunk.
Data ==
  \E n \in ChunkSizes \cup {file.size - received} :
    /\ outcome = "reading"
    /\ n >= 1
    /\ received + n <= file.size
    /\ received' = received + n
    /\ ReaderBecomes(DataHandler(Reader, Slice(StreamOf(file), received, received + n)))
    /\ splitSeen' = (splitSeen \/ Len(leftover') > 0)
    /\ UNCHANGED file

\* The end event, after the last chunk.
End ==
  /\ outcome = "reading"
  /\ received = file.size
  /\ ReaderBecomes(EndHandler(Reader))
  /\ UNCHANGED <<file, received, splitSeen>>

\* ------------------------------------------------------- loadFile's decoder
\* The while loop of loadFile over the whole buffer.
RECURSIVE LoadRecords(_, _, _, _, _)
LoadRecords(buffer, at, pkts, isLittleEndian, link) ==
  IF at + RecordHeaderLen <= Len(buffer)
  THEN LET capturedLength == ReadUInt32(buffer, at + 8, isLittleEndian)
       IN IF at + RecordHeaderLen + capturedLength > Len(buffer)
          THEN pkts
          ELSE LoadRecords(
                 buffer, at + RecordHeaderLen + capturedLength,
                 pkts \o ParsePacket(
                           Slice(buffer, at + RecordHeaderLen,
                                 at + RecordHeaderLen + capturedLength),
                           Len(pkts) + 1,
                           Timestamp(ReadUInt32(buffer, at, isLittleEndian),
                                     ReadUInt32(buffer, at + 4, isLittleEndian)),
                           capturedLength, link),
                 isLittleEndian, link)
  ELSE pkts

\* What loadFile does with the bytes of an existing file: its result and
\* the packets it stores.
LoadBuffer(buffer) ==
  IF Len(buffer) < GlobalHeaderLen
  THEN [success |-> FALSE, error |-> "Invalid PCAP file", packets |-> <<>>]
  ELSE LET magicNumber == Slice(buffer, 0, Len(MagicBE))
       IN IF magicNumber \notin {MagicBE, MagicLE}
          THEN [success |-> FALSE, error |-> "Invalid PCAP magic number", packets |-> <<>>]
          ELSE [success |-> TRUE, error |-> "",
                packets |-> LoadRecords(buffer, GlobalHeaderLen, <<>>,
                                        magicNumber = MagicLE,
                                        ReadUInt32(buffer, 20, magicNumber = MagicLE))]

\* ------------------------------------------------------------------ PCAPNG
\* The block loop of parsePcapNgStream works on the same kind of locals;
\* r.globalHeaderParsed is not used by it.
NgTimestamp(timestampHigh, timestampLow) ==
  (timestampHigh * (2 ^ 16) * (2 ^ 16) + timestampLow) \div 1000000

\* The call of progressCallback in the packet-block case, made after
\* packetNumber was incremented to n.
NgProgressDue(n, current, total) ==
  IF n % ProgressEvery = 0
  THEN <<[current |-> current, total |-> total, packets |-> n]>>
  ELSE <<>>

\* The switch on the block type; r already has the block sliced off.
NgBlock(r, blockType, blockData) ==
  IF blockType = BlockTypeIDB
  THEN IF Len(blockData) >= NgMinBlockData
       THEN [r EXCEPT !.linkType = ReadUInt16LE(blockData, 16)]
       ELSE r
  ELSE IF blockType \in {BlockTypeEPB, BlockTypeSPB}
  THEN IF Len(blockData) >= NgMinBlockData
       THEN IF Len(blockData) < NgPacketDataAt
            THEN [r EXCEPT !.outcome = "threw"]
            ELSE LET capturedLen == ReadUInt32LE(blockData, 16)
                     timestamp == NgTimestamp(ReadUInt32LE(blockData, 8),
                                              ReadUInt32LE(blockData, 12))
                 IN IF Len(blockData) >= NgPacketDataAt + capturedLen
                    THEN [r EXCEPT
                            !.packets = @ \o ParsePacket(
                                          Slice(blockData, NgPacketDataAt,
                                                NgPacketDataAt + capturedLen),
                                          r.packetNumber, timestamp, capturedLen,
                                          r.linkType),
                            !.packetNumber = @ + 1,
                            !.progress = @ \o NgProgressDue(r.packetNumber + 1,
                                                            r.offset, r.totalSize)]
                    ELSE r
       ELSE r
  ELSE r

\* The while loop of the data handler of parsePcapNgStream.
RECURSIVE NgParseBlocks(_)
NgParseBlocks(r) ==
  IF r.outcome = "reading" /\ Len(r.leftover) >= NgBlockHead
  THEN LET blockType == ReadUInt32LE(r.leftover, 4)
           blockLength == ReadUInt32LE(r.leftover, 0)
       IN IF blockLength < NgMinBlock \/ Len(r.leftover) < blockLength
          THEN r
          ELSE NgParseBlocks(
                 NgBlock([r EXCEPT !.leftover = SliceFrom(r.leftover, blockLength),
                                   !.offset = @ + blockLength],
                         blockType, Slice(r.leftover, 0, blockLength)))
  ELSE r

\* The data handler of parsePcapNgStream, run on one chunk.
NgDataHandler(r, chunk) == NgParseBlocks([r EXCEPT !.leftover = Concat(r.leftover, chunk)])

\* The end handler of parsePcapNgStream.
NgEndHandler(r) ==
  [r EXCEPT !.progress = @ \o <<[current |-> r.totalSize, total |-> r.totalSize,
                                 packets |-> Len(r.packets)]>>,
            !.outcome = "resolved"]

\* The locals of parsePcapNgStream when it returns; readPcapFile has set
\* globalEndianness on seeing the Section Header Block's type.
NewNgReader ==
  [NewReader EXCEPT !.linkType = LinkTypeEthernet, !.globalEndianness = TRUE]

\* The blocks of a well-formed little-endian PCAPNG stream, each laid out
\* as type(4) length(4) body length(4), with the body padded to 32 bits.
Padded(bytes) == bytes \o Zeros((4 - (Len(bytes) % 4)) % 4)

NgBlockBytes(type, body) ==
  type \o U32(Len(body) + NgMinBlock, TRUE) \o body \o U32(Len(body) + NgMinBlock, TRUE)

SectionHeaderBytes ==
  NgBlockBytes(MagicNg, ByteOrderMagic \o U16(1, TRUE) \o U16(0, TRUE)
                          \o <<255, 255, 255, 255, 255, 255, 255, 255>>)

BlockBytes(b) ==
  IF b.kind = "idb"
  THEN NgBlockBytes(U32(BlockTypeIDB, TRUE),
                    U16(b.linkType, TRUE) \o U16(0, TRUE) \o U32(Snaplen, TRUE))
  ELSE IF b.kind = "epb"
  THEN NgBlockBytes(U32(BlockTypeEPB, TRUE),
                    U32(0, TRUE) \o U32(0, TRUE) \o U32(NgTicks, TRUE)
                    \o U32(Len(b.payload), TRUE) \o U32(Len(b.payload), TRUE)
                    \o Padded(b.payload))
  ELSE IF b.kind = "spb"
  THEN NgBlockBytes(U32(BlockTypeSPB, TRUE),
                    U32(Len(b.payload), TRUE) \o Padded(b.payload))
  ELSE NgBlockBytes(U32(BlockTypeOther, TRUE), <<>>)

RECURSIVE BlocksBytes(_)
BlocksBytes(blocks) ==
  IF blocks = <<>> THEN <<>>
  ELSE IF Len(blocks) = 1 THEN BlockBytes(blocks[1])
  ELSE BlocksBytes(SubSeq(blocks, 1, Len(blocks) \div 2))
       \o BlocksBytes(SubSeq(blocks, Len(blocks) \div 2 + 1, Len(blocks)))

\* A stream is the Section Header Block, an Interface Description Block
\* for Ethernet, and then the blocks of its description.
NgBytes(f) ==
  SectionHeaderBytes
  \o BlockBytes([kind |-> "idb", linkType |-> LinkTypeEthernet, payload |-> <<>>])
  \o BlocksBytes(f.blocks)

\* The frame of a packet block: an Ethernet header with EtherType 0x0800.
NgPayload == LinkHeader(LinkTypeEthernet, EtherTypeIPv4)

NgBlockKinds ==
  {[kind |-> "idb", linkType |-> LinkTypeOther, payload |-> <<>>],
   [kind |-> "epb", linkType |-> 0, payload |-> NgPayload],
   [kind |-> "spb", linkType |-> 0, payload |-> NgPayload],
   [kind |-> "other", linkType |-> 0, payload |-> <<>>]}

\* The PCAPNG captures offered to readPcapFile.
NgFiles ==
  {[blocks |-> bs, size |-> Len(NgBytes([blocks |-> bs, size |-> 0]))] :
     bs \in UNION {[1..n -> NgBlockKinds] : n \in 0..MaxBlocks}}

\* readPcapFile was called on a PCAPNG capture; no data event yet.
NgStart ==
  /\ file \in NgFiles
  /\ received = 0
  /\ leftover = NewNgReader.leftover
  /\ readPackets = NewNgReader.packets
  /\ offset = NewNgReader.offset
  /\ packetNumber = NewNgReader.packetNumber
  /\ globalHeaderParsed = NewNgReader.globalHeaderParsed
  /\ linkType = NewNgReader.linkType
  /\ globalEndianness = NewNgReader.globalEndianness
  /\ outcome = NewNgReader.outcome
  /\ progress = NewNgReader.progress
  /\ splitSeen = FALSE

\* A data event of the PCAPNG stream.
NgData ==
  \E n \in ChunkSizes \cup {file.size - received} :
    /\ outcome = "reading"
    /\ n >= 1
    /\ received + n <= file.size
    /\ received' = received + n
    /\ ReaderBecomes(NgDataHandler(Reader, Slice(NgBytes(file), received, received + n)))
    /\ splitSeen' = (splitSeen \/ Len(leftover') > 0)
    /\ UNCHANGED file

\* The end event of the PCAPNG stream.
NgEnd ==
  /\ outcome = "reading"
  /\ received = file.size
  /\ ReaderBecomes(NgEndHandler(Reader))
  /\ UNCHANGED <<file, received, splitSeen>>


\* ----------------------------------------------------------- long captures
\* Reads of captures with about ProgressEvery frames, delivered in chunks
\* of BulkChunk bytes or half as many, the last one shorter.
IsNg(f) == "blocks" \in DOMAIN f

ProgressCounts == {ProgressEvery - 1, ProgressEvery, ProgressEvery + 1}

LongFiles ==
  {[magic |-> m, records |-> [i \in 1..n |-> Record2],
    size |-> GlobalHeaderLen + n * (RecordHeaderLen + Len(Record2.payload))] :
     m \in {"be", "le"}, n \in ProgressCounts}

LongNgFiles ==
  {[blocks |-> [i \in 1..n |-> b],
    size |-> Len(NgBytes([blocks |-> <<>>, size |-> 0])) + n * Len(BlockBytes(b))] :
     b \in {k \in NgBlockKinds : k.kind \in {"epb", "spb"}}, n \in ProgressCounts}

\* readPcapFile was called on a long capture; no data event yet.
LongStart ==
  /\ file \in LongFiles \cup LongNgFiles
  /\ received = 0
  /\ leftover = NewReader.leftover
  /\ readPackets = NewReader.packets
  /\ offset = NewReader.offset
  /\ packetNumber = NewReader.packetNumber
  /\ globalHeaderParsed = NewReader.globalHeaderParsed
  /\ linkType = IF IsNg(file) THEN NewNgReader.linkType ELSE NewReader.linkType
  /\ globalEndianness = IsNg(file)
  /\ outcome = NewReader.outcome
  /\ progress = NewReader.progress
  /\ splitSeen = FALSE

\* A data event of a long classic capture.
BulkData ==
  \E n \in {BulkChunk, BulkChunk \div 2, Min(BulkChunk, file.size - received)} :
    /\ ~IsNg(file)
    /\ outcome = "reading"
    /\ n >= 1
    /\ received + n <= file.size
    /\ received' = received + n
    /\ ReaderBecomes(DataHandler(Reader, Slice(StreamOf(file), received, received + n)))
    /\ splitSeen' = (splitSeen \/ Len(leftover') > 0)
    /\ UNCHANGED file

\* A data event of a long PCAPNG capture.
NgBulkData ==
  \E n \in {BulkChunk, BulkChunk \div 2, Min(BulkChunk, file.size - received)} :
    /\ IsNg(file)
    /\ outcome = "reading"
    /\ n >= 1
    /\ received + n <= file.size
    /\ received' = received + n
    /\ ReaderBecomes(NgDataHandler(Reader, Slice(NgBytes(file), received, received + n)))
    /\ splitSeen' = (splitSeen \/ Len(leftover') > 0)
    /\ UNCHANGED file

\* -------------------------------------------------------- validatePcapFile
\* The bytes of a capture file as they lie on disk.
FileBytes(f) == IF IsNg(f) THEN NgBytes(f) ELSE StreamOf(f)

\* validatePcapFile(filepath) on an existing file: the first four bytes are
\* read into a zeroed buffer and compared, as a little-endian and as a
\* big-endian number, with 0xa1b2c3d4 and 0xd4c3b2a1.  A number is written
\* here as its four bytes, most significant first.
ValidatePcapFile(bytes) ==
  LET buffer == [i \in 1..Len(MagicBE) |-> IF i <= Len(bytes) THEN bytes[i] ELSE 0]
      magicNumberLE == <<buffer[4], buffer[3], buffer[2], buffer[1]>>
      magicNumberBE == buffer
  IN IF magicNumberLE = MagicBE \/ magicNumberLE = MagicLE
     THEN TRUE
     ELSE magicNumberBE = MagicBE \/ magicNumberBE = MagicLE

\* -------------------------------------------------------- concurrent reads
\* A second readPcapFile call running in the same process.  It has its own
\* stream and its own locals, and shares the module's globalEndianness.
VARIABLES
  peerFile,      \* the capture the second call reads
  peerReceived,  \* bytes handed to its data handler so far
  peer           \* its locals and how its promise stands

peerVars == <<peerFile, peerReceived, peer>>

\* The locals of the second call when parsePcapStream returns.
NewPeer == [NewReader EXCEPT !.totalSize = peerFile.size]

\* The captures of the two calls: whole files of opposite byte order.
ConcurrentRecordLists == {<<Record1>>, <<Record1, Record2>>}

ConcurrentFiles(magic) ==
  {[magic |-> magic, records |-> recs,
    size |-> Len(FullBytes([magic |-> magic, records |-> recs, size |-> 0]))] :
     recs \in ConcurrentRecordLists}

\* Both calls were made; no data event yet.
ConcurrentStart ==
  /\ file \in ConcurrentFiles("be")
  /\ received = 0
  /\ leftover = NewReader.leftover
  /\ readPackets = NewReader.packets
  /\ offset = NewReader.offset
  /\ packetNumber = NewReader.packetNumber
  /\ globalHeaderParsed = NewReader.globalHeaderParsed
  /\ linkType = NewReader.linkType
  /\ globalEndianness = NewReader.globalEndianness
  /\ outcome = NewReader.outcome
  /\ progress = NewReader.progress
  /\ splitSeen = FALSE
  /\ peerFile \in ConcurrentFiles("le")
  /\ peerReceived = 0
  /\ peer = NewPeer

\* There is no second call.
PeerIdle ==
  /\ peerFile = [magic |-> "le", records |-> <<>>, size |-> 0]
  /\ peerReceived = 0
  /\ peer = NewPeer

\* A data event of the second call's stream: its handler reads and writes
\* the shared globalEndianness.
PeerData ==
  \E n \in ChunkSizes \cup {peerFile.size - peerReceived} :
    /\ peer.outcome = "reading"
    /\ n >= 1
    /\ peerReceived + n <= peerFile.size
    /\ peerReceived' = peerReceived + n
    /\ peer' = DataHandler([peer EXCEPT !.globalEndianness = globalEndianness],
                           Slice(StreamOf(peerFile), peerReceived, peerReceived + n))
    /\ globalEndianness' = peer'.globalEndianness
    /\ UNCHANGED <<peerFile, file, received, leftover, readPackets, offset, packetNumber,
                   globalHeaderParsed, linkType, outcome, progress, splitSeen>>

\* The end event of the second call's stream.
PeerEnd ==
  /\ peer.outcome = "reading"
  /\ peerReceived = peerFile.size
  /\ peer' = EndHandler([peer EXCEPT !.globalEndianness = globalEndianness])
  /\ UNCHANGED <<peerFile, peerReceived, readerVars>>

\* --------------------------------------------------------- packetProcessor
\* calculateStatistics(packets).  A JavaScript object used as a map is a
\* function from its keys; Infinity and null are the empty sequence and any
\* other value v is <<v>>; the quotient total / packets.length is the pair
\* <<total, packets.length>>.
VARIABLES
  statsInput,   \* the list calculateStatistics is called on
  statsBefore,  \* history: the list as it was before the first call
  statsResult,  \* what the last call returned: <<>> or <<stats>>
  statsEarlier, \* history: what the call before it returned
  statsCalls    \* number of calls made

statsVars == <<statsInput, statsBefore, statsResult, statsEarlier, statsCalls>>

NoCounts == [key \in {} |-> 0]
Infinity == <<>>
NoAddress == ""

\* map[key] = (map[key] || 0) + 1
Increment(map, key) ==
  [k \in DOMAIN map \cup {key} |->
     IF k = key THEN (IF key \in DOMAIN map THEN map[key] ELSE 0) + 1 ELSE map[k]]

\* A stats object whose smallest size starts at 0.
NewStatsMinZero(pkts) ==
  [totalPackets |-> Len(pkts), protocols |-> NoCounts, srcIPs |-> NoCounts,
   dstIPs |-> NoCounts, packetSizes |-> [min |-> <<0>>, max |-> 0, total |-> 0],
   timestamps |-> [first |-> <<>>, last |-> <<>>]]

\* A stats object that outlives the call: the one returned last.
KeptStats(pkts) ==
  IF statsResult = <<>>
  THEN [totalPackets |-> Len(pkts), protocols |-> NoCounts, srcIPs |-> NoCounts,
        dstIPs |-> NoCounts, packetSizes |-> [min |-> Infinity, max |-> 0, total |-> 0],
        timestamps |-> [first |-> <<>>, last |-> <<>>]]
  ELSE [totalPackets |-> Len(pkts), protocols |-> statsResult[1].protocols,
        srcIPs |-> statsResult[1].srcIPs, dstIPs |-> statsResult[1].dstIPs,
        packetSizes |-> [min |-> statsResult[1].packetSizes.min,
                         max |-> statsResult[1].packetSizes.max,
                         total |-> statsResult[1].packetSizes.total],
        timestamps |-> statsResult[1].timestamps]

\* The stats object before the loop.
NewStats(pkts) ==
  [totalPackets |-> Len(pkts), protocols |-> NoCounts, srcIPs |-> NoCounts,
   dstIPs |-> NoCounts, packetSizes |-> [min |-> Infinity, max |-> 0, total |-> 0],
   timestamps |-> [first |-> <<>>, last |-> <<>>]]

\* packet.protocols.forEach(proto => ...), from the i-th name on.
RECURSIVE CountProtocols(_, _, _)
CountProtocols(map, protocols, i) ==
  IF i > Len(protocols) THEN map
  ELSE CountProtocols(Increment(map, protocols[i]), protocols, i + 1)

\* Counting only the last name of the stack.
CountDeepest(map, protocols) ==
  IF protocols = <<>> THEN map ELSE Increment(map, protocols[Len(protocols)])

\* The protocol counts after one packet: one more for each name of its stack.
CountStack(map, protocols) == CountProtocols(map, protocols, 1)

\* The body of packets.forEach for one packet.  Every packet parsePacket
\* builds has a protocols array, so the fallbacks for packet.protocol and
\* 'Unknown' are not taken.
StatsOfPacket(stats, packet) ==
  LET sizes == stats.packetSizes
      times == stats.timestamps
  IN [stats EXCEPT
        !.protocols = CountStack(@, packet.protocols),
        !.srcIPs = IF packet.src # NoAddress THEN Increment(@, packet.src) ELSE @,
        !.dstIPs = IF packet.dst # NoAddress THEN Increment(@, packet.dst) ELSE @,
        !.packetSizes =
           IF packet.length # 0
           THEN [min |-> IF sizes.min = Infinity THEN <<packet.length>>
                         ELSE <<Min(sizes.min[1], packet.length)>>,
                 max |-> Max(sizes.max, packet.length),
                 total |-> sizes.total + packet.length]
           ELSE sizes,
        !.timestamps =
           IF packet.timestamp # 0
           THEN [first |-> IF times.first = <<>> \/ times.first = <<0>>
                           THEN <<packet.timestamp>>
                           ELSE <<Min(times.first[1], packet.timestamp)>>,
                 last |-> IF times.last = <<>> \/ times.last = <<0>>
                          THEN <<packet.timestamp>>
                          ELSE <<Max(times.last[1], packet.timestamp)>>]
           ELSE times]

\* packets.forEach, from the i-th packet on.
RECURSIVE StatsOfPackets(_, _, _)
StatsOfPackets(stats, pkts, i) ==
  IF i > Len(pkts) THEN stats
  ELSE StatsOfPackets(StatsOfPacket(stats, pkts[i]), pkts, i + 1)

CalculateStatistics(pkts) ==
  LET stats == StatsOfPackets(NewStats(pkts), pkts, 1)
  IN [totalPackets |-> stats.totalPackets,
      protocols |-> stats.protocols,
      srcIPs |-> stats.srcIPs,
      dstIPs |-> stats.dstIPs,
      packetSizes |-> [min |-> stats.packetSizes.min,
                       max |-> stats.packetSizes.max,
                       total |-> stats.packetSizes.total,
                       average |-> IF Len(pkts) > 0
                                   THEN <<stats.packetSizes.total, Len(pkts)>>
                                   ELSE <<0, 1>>],
      timestamps |-> stats.timestamps,
      duration |-> IF /\ stats.timestamps.first # <<>>
                      /\ stats.timestamps.first # <<0>>
                      /\ stats.timestamps.last # <<>>
                      /\ stats.timestamps.last # <<0>>
                   THEN stats.timestamps.last[1] - stats.timestamps.first[1]
                   ELSE 0]

\* The packets calculateStatistics is given: what parsePacket returns for
\* frames of these layer stacks, lengths and timestamps.
StatStacks ==
  {<<>>, <<"Ethernet">>, <<"Ethernet", "IP", "TCP">>, <<"Ethernet", "IP", "UDP">>}

StatPackets ==
  {[protocols |-> st, length |-> len, timestamp |-> ts,
    src |-> IF st = <<>> THEN NoAddress ELSE "10.0.0.1",
    dst |-> IF st = <<>> THEN NoAddress ELSE "10.0.0.2"] :
     st \in StatStacks, len \in {StatLength, FullFrame},
     ts \in {BaseTime, BaseTime + GapTime}}

StatLists == UNION {[1..n -> StatPackets] : n \in 0..MaxStatPackets}

\* calculateStatistics has not been called.
StatsIdle ==
  /\ statsInput = <<>>
  /\ statsBefore = <<>>
  /\ statsResult = <<>>
  /\ statsEarlier = <<>>
  /\ statsCalls = 0

\* A packet list is at hand; calculateStatistics has not been called.
StatsStart ==
  /\ statsInput \in StatLists
  /\ statsBefore = statsInput
  /\ statsResult = <<>>
  /\ statsEarlier = <<>>
  /\ statsCalls = 0

\* Packets of an empty record (length 0) or stamped at the epoch
\* (timestamp 0) beside ordinary ones.
ZeroStatPackets ==
  {[protocols |-> <<"Ethernet">>, length |-> len, timestamp |-> ts,
    src |-> "10.0.0.1", dst |-> "10.0.0.2"] :
     len \in {0, StatLength, FullFrame}, ts \in {0, BaseTime, BaseTime + GapTime}}

ZeroStatLists == UNION {[1..n -> ZeroStatPackets] : n \in 0..MaxStatPackets}

\* A packet list that may hold such packets is at hand; calculateStatistics
\* has not been called.
ZeroStatsStart ==
  /\ statsInput \in ZeroStatLists
  /\ statsBefore = statsInput
  /\ statsResult = <<>>
  /\ statsEarlier = <<>>
  /\ statsCalls = 0

\* One call of calculateStatistics on the list.  The function reads the
\* list and writes only its own stats object.
Calculate ==
  /\ statsCalls < MaxStatCalls
  /\ statsResult' = <<CalculateStatistics(statsInput)>>
  /\ statsEarlier' = statsResult
  /\ statsCalls' = statsCalls + 1
  /\ UNCHANGED <<statsInput, statsBefore>>

\* ------------------------------------------------------------ ipc handlers
\* handleSimLoadFile(event, filepath) on an existing session: reset(), then
\* loadFile(filepath); the result of loadFile is returned.
HandleSimLoadFile ==
  \E f \in Files :
    /\ lastOp' = "simLoadFile"
    /\ lastArg' = NoArg
    /\ StopBody
    /\ packetCallback' = Null
    /\ statsCallback' = Null
    /\ UNCHANGED <<speed, timeScale>>
    /\ IF f.kind = "missing" \/ f.size < GlobalHeaderLen \/ f.kind = "badmagic"
       THEN /\ lastResult' = "failure"
            /\ packets' = <<>>
       ELSE /\ lastResult' = "ok"
            /\ packets' = PacketList(f.records)

\* -------------------------------------------------------- specifications
vars == <<replayVars, parserVars, readerVars, peerVars, statsVars>>

Init == SessionInit /\ ParserIdle /\ ReaderIdle /\ PeerIdle /\ StatsIdle

\* The replay engine; no read and no parsePacket call is in progress.
Next ==
  \/ LoadFile /\ UNCHANGED <<parserVars, readerVars, peerVars, statsVars>>
  \/ Start /\ UNCHANGED <<parserVars, readerVars, peerVars, statsVars>>
  \/ TimerFire /\ UNCHANGED <<parserVars, readerVars, peerVars, statsVars>>
  \/ Pause /\ UNCHANGED <<parserVars, readerVars, peerVars, statsVars>>
  \/ Resume /\ UNCHANGED <<parserVars, readerVars, peerVars, statsVars>>
  \/ Stop /\ UNCHANGED <<parserVars, readerVars, peerVars, statsVars>>
  \/ Reset /\ UNCHANGED <<parserVars, readerVars, peerVars, statsVars>>
  \/ GetStatusCall /\ UNCHANGED <<parserVars, readerVars, peerVars, statsVars>>
  \/ SetSpeed /\ UNCHANGED <<parserVars, readerVars, peerVars, statsVars>>

Spec == Init /\ [][Next]_vars

\* The event loop runs every timeout that stays pending.
FairSpec == Spec /\ WF_vars(TimerFire /\ UNCHANGED <<parserVars, readerVars, peerVars, statsVars>>)

\* The replay engine driven through its operations and the sim-load-file
\* handler.
HandlerNext ==
  \/ Next
  \/ HandleSimLoadFile /\ UNCHANGED <<parserVars, readerVars, peerVars, statsVars>>

HandlerSpec == Init /\ [][HandlerNext]_vars

\* One read of a classic capture by readPcapFile, under every chunking.
ReaderInit == SessionInit /\ ParserIdle /\ ReaderStart /\ PeerIdle /\ StatsIdle

ReaderNext ==
  \/ Data /\ UNCHANGED <<replayVars, parserVars, peerVars, statsVars>>
  \/ End /\ UNCHANGED <<replayVars, parserVars, peerVars, statsVars>>

ReaderSpec == ReaderInit /\ [][ReaderNext]_vars

\* One read of a PCAPNG capture by readPcapFile, under every chunking.
NgInit == SessionInit /\ ParserIdle /\ NgStart /\ PeerIdle /\ StatsIdle

NgNext ==
  \/ NgData /\ UNCHANGED <<replayVars, parserVars, peerVars, statsVars>>
  \/ NgEnd /\ UNCHANGED <<replayVars, parserVars, peerVars, statsVars>>

NgSpec == NgInit /\ [][NgNext]_vars

\* Two readPcapFile calls on classic captures, their data events interleaved.
ConcurrentInit == SessionInit /\ ParserIdle /\ ConcurrentStart /\ StatsIdle

ConcurrentNext ==
  \/ Data /\ UNCHANGED <<replayVars, parserVars, peerVars, statsVars>>
  \/ End /\ UNCHANGED <<replayVars, parserVars, peerVars, statsVars>>
  \/ PeerData /\ UNCHANGED <<replayVars, parserVars, statsVars>>
  \/ PeerEnd /\ UNCHANGED <<replayVars, parserVars, statsVars>>

ConcurrentSpec == ConcurrentInit /\ [][ConcurrentNext]_vars

\* Calls of calculateStatistics on every packet list.
StatsInit == SessionInit /\ ParserIdle /\ ReaderIdle /\ PeerIdle /\ StatsStart

StatsNext == Calculate /\ UNCHANGED <<replayVars, parserVars, readerVars, peerVars>>

StatsSpec == StatsInit /\ [][StatsNext]_vars

\* calculateStatistics on lists with empty and epoch-stamped packets.
ZeroStatsInit == SessionInit /\ ParserIdle /\ ReaderIdle /\ PeerIdle /\ ZeroStatsStart

ZeroStatsSpec == ZeroStatsInit /\ [][StatsNext]_vars

\* One read of a long capture, classic or PCAPNG.
LongInit == SessionInit /\ ParserIdle /\ LongStart /\ PeerIdle /\ StatsIdle

LongNext ==
  \/ BulkData /\ UNCHANGED <<replayVars, parserVars, peerVars, statsVars>>
  \/ NgBulkData /\ UNCHANGED <<replayVars, parserVars, peerVars, statsVars>>
  \/ ~IsNg(file) /\ End /\ UNCHANGED <<replayVars, parserVars, peerVars, statsVars>>
  \/ IsNg(file) /\ NgEnd /\ UNCHANGED <<replayVars, parserVars, peerVars, statsVars>>

LongSpec == LongInit /\ [][LongNext]_vars

\* One call of parsePacket on every frame.
ParserInit == SessionInit /\ ParserStart /\ ReaderIdle /\ PeerIdle /\ StatsIdle

ParserNext == Parse /\ UNCHANGED <<replayVars, readerVars, peerVars, statsVars>>

ParserSpec == ParserInit /\ [][ParserNext]_vars

\* ------------------------------------------------------------------ claims
\* Lifecycle states of the session, read off its fields.
Running == isCapturing /\ ~isPaused
Paused == isCapturing /\ isPaused

\* The packetCallback invocations of a complete replay of the buffer.
AllDelivered == [i \in 1..Len(packets) |-> [index |-> i - 1, packet |-> packets[i]]]

\* C1: in every reachable state at most one timeout that will call sendPacket
\* is pending.
C1_AtMostOneScheduled == Cardinality(armed) <= 1

\* C2: once pause() or stop() has returned, no operation invokes the packet
\* callback or the stats callback until resume() or start() is called.
C2_QuietAfterPauseStop == quiet => calls = NoCalls

\* C2 witness: a timeout left pending fires while the session is paused.
C2_Witness ==
  quiet /\ lastOp = "timer" /\ Paused /\ currentIndex < Len(packets) /\ calls = NoCalls

\* C3: a replay of N >= 1 packets started from Loaded and not interrupted by
\* pause, stop, load or reset eventually has delivered exactly the N packets
\* of the buffer in order and is no longer capturing.
C3_UninterruptedCompletes ==
  (uninterrupted /\ Len(packets) >= 1)
    ~> (~uninterrupted \/ (~isCapturing /\ delivered = AllDelivered))

\* C3 witness: an uninterrupted replay of several packets has completed.
C3_Witness ==
  uninterrupted /\ ~isCapturing /\ Len(packets) >= 2 /\ delivered = AllDelivered

\* C4: when the last timeout of an uninterrupted replay of N >= 1 packets has
\* completed it, the last stats event emitted carries progress = 100.
C4_FinalStatsProgress100 ==
  (uninterrupted /\ lastOp = "timer" /\ ~isCapturing /\ Len(packets) >= 1
     /\ currentIndex >= Len(packets))
    => (lastStats # <<>> /\ lastStats[1].progress = 100)

\* C5: pause() called after exactly k deliveries, 1 <= k < N, leaves the
\* session paused at currentIndex = k, and as long as only timer firings,
\* pause, setSpeed and getStatus follow, nothing more is delivered and
\* getStatus() keeps reporting isPaused and currentIndex = k.
C5_PauseHoldsDeliveries ==
  [][ /\ (lastOp' = "pause" /\ Running /\ currentIndex < Len(packets))
           => /\ Len(delivered) >= 1
              /\ delivered' = delivered
              /\ GetStatus'.isPaused
              /\ GetStatus'.currentIndex = Len(delivered)
      /\ (Paused /\ currentIndex < Len(packets)
            /\ lastOp' \in {"pause", "timer", "setSpeed", "getStatus"})
           => /\ calls' = NoCalls
              /\ delivered' = delivered
              /\ GetStatus'.isPaused
              /\ GetStatus'.currentIndex = currentIndex ]_vars

\* C5 witness: three packets loaded, paused after the first delivery, status read.
C5_Witness ==
  /\ lastOp = "getStatus"
  /\ Len(packets) = 3
  /\ Len(delivered) = 1
  /\ GetStatus.isPaused
  /\ GetStatus.currentIndex = 1

\* C6: the packets delivered since the index was last reset are the buffer
\* entries 0, 1, 2, ... in order, none twice and none skipped.
C6_DeliveredInOrder ==
  /\ Len(delivered) <= Len(packets)
  /\ \A i \in 1..Len(delivered) :
       delivered[i] = [index |-> i - 1, packet |-> packets[i]]

\* C6 witness: two timeouts are pending and several packets were delivered.
C6_Witness == Cardinality(armed) >= 2 /\ Len(delivered) >= 3 /\ lastOp = "resume"

\* C7: start() with an empty buffer throws and changes no field of the
\* session and no pending timeout.
C7_StartEmptyThrows ==
  [][(lastOp' = "start" /\ Len(packets) = 0)
       => (lastResult' = "throw" /\ calls' = NoCalls /\ UNCHANGED <<fields, armed, delayOf>>)]_vars

\* C7 witness: start() threw on a session that holds callbacks and a pending timeout.
C7_Witness ==
  /\ lastOp = "start"
  /\ lastResult = "throw"
  /\ Len(packets) = 0
  /\ packetCallback # Null
  /\ armed # {}

\* C8: start() while the session is Running or Paused is rejected and leaves
\* the index, the flags, the speed and the pending delivery unchanged.
C8_StartOnlyFromLoaded ==
  [][(lastOp' = "start" /\ isCapturing)
       => /\ lastResult' # "ok"
          /\ UNCHANGED <<currentIndex, isCapturing, isPaused, speed, timer, armed, delayOf>>]_vars

\* C9 as stated: resume() in a state other than Paused fails with an illegal
\* state condition, delivers nothing and changes nothing.
C9_ResumeIllegalState ==
  [][(lastOp' = "resume" /\ ~Paused)
       => /\ lastResult' = "illegalState"
          /\ calls' = NoCalls
          /\ UNCHANGED <<fields, armed, delayOf>>]_vars

\* C9 amended: resume() in a state other than Paused returns normally,
\* delivers nothing and changes nothing.
C9_ResumeNoOp ==
  [][(lastOp' = "resume" /\ ~Paused)
       => /\ lastResult' = "ok"
          /\ calls' = NoCalls
          /\ UNCHANGED <<fields, armed, delayOf, delivered, lastStats>>]_vars

\* C9 witness: resume() was called on a loaded session that is not capturing.
C9_Witness ==
  lastOp = "resume" /\ ~isCapturing /\ currentIndex = 0 /\ Len(packets) > 0

\* C10: pause() never changes currentIndex or the buffer; from Running it
\* leaves no delivery pending and sets Paused; in every other state it
\* changes nothing.
C10_PauseFrame ==
  [][lastOp' = "pause"
       => /\ currentIndex' = currentIndex
          /\ packets' = packets
          /\ IF Running
             THEN Paused' /\ armed' = {}
             ELSE UNCHANGED <<fields, armed, delayOf>>]_vars

\* C11: stop() in any state leaves currentIndex = 0, not capturing, not
\* paused, no delivery pending and the buffer unchanged, and a second stop()
\* changes nothing more.
C11_StopResets ==
  [][lastOp' = "stop"
       => /\ currentIndex' = 0
          /\ ~isCapturing'
          /\ ~isPaused'
          /\ armed' = {}
          /\ packets' = packets
          /\ (lastOp = "stop" => UNCHANGED <<fields, armed, delayOf>>)]_vars

C13_SetSpeedFrame ==
  [][/\ lastOp' = "setSpeed"
          => /\ speed' = IF lastArg' < MinSpeed THEN MinSpeed
                         ELSE IF lastArg' > MaxSpeed THEN MaxSpeed ELSE lastArg'
             /\ UNCHANGED <<packets, currentIndex, isCapturing, isPaused, timer,
                            packetCallback, statsCallback, timeScale, armed, delayOf,
                            delivered, lastStats>>
     /\ currentIndex' = currentIndex + 1
          => /\ timer' \in armed'
             /\ delayOf'[2] # 0
             /\ delayOf'[1] * timeScale'[2] * speed' = delayOf'[2] * timeScale'[1] * 10]_vars

\* C13 witness: setSpeed(15.0) stored 10 while a delivery armed at another
\* speed is pending, and that delivery keeps its delay.
C13_Witness ==
  /\ lastOp = "setSpeed"
  /\ lastArg = 150
  /\ speed = MaxSpeed
  /\ Running
  /\ timer \in armed
  /\ delayOf # NoDelay
  /\ delayOf # Delay(timeScale, speed)

\* ----------------------------------------------------- claims: the reader
\* The one-chunk read: the data handler on the whole stream, then the end
\* handler unless the promise was rejected.
ReadWhole(stream) ==
  LET r == DataHandler(NewReader, stream)
  IN IF r.outcome = "rejected" THEN r ELSE EndHandler(r)

\* What a capture file says, read off its description and not its bytes:
\* the offset at which record k ends, the number of records that lie wholly
\* inside the file, and number, timestamp and length of the packets of the
\* first k records (a record without payload has no packet).
RECURSIVE BoundaryOf(_, _)
BoundaryOf(recs, k) ==
  IF k = 0 THEN GlobalHeaderLen
  ELSE BoundaryOf(recs, k - 1) + RecordHeaderLen + Len(recs[k].payload)

CompleteRecords(f) ==
  Cardinality({k \in 1..Len(f.records) : BoundaryOf(f.records, k) <= f.size})

Described(recs, k) ==
  SelectSeq([i \in 1..k |->
               [number |-> i,
                timestamp |-> <<recs[i].sec * 1000 + recs[i].usec \div 1000,
                                recs[i].usec % 1000>>,
                length |-> Len(recs[i].payload)]],
            LAMBDA p : p.length > 0)

Keys(pkts) ==
  [i \in 1..Len(pkts) |->
     [number |-> pkts[i].number, timestamp |-> pkts[i].timestamp,
      length |-> pkts[i].length]]

\* C14: a stream whose first four bytes are no recognised magic is rejected
\* and yields no packet list, whatever its length and chunking.
C14_BadMagicRejected ==
  (file.magic = "bad" /\ file.size >= Len(MagicBad) /\ outcome # "reading")
    => outcome = "rejected"

\* C15: the magic selects the byte order of every global-header and
\* record-header field, so a big-endian capture and its little-endian twin
\* decode to the same header values, record boundaries and timestamps.
C15_ByteOrderIndependent ==
  (file.magic # "bad" /\ globalHeaderParsed) =>
    /\ globalEndianness = (file.magic = "le")
    /\ linkType = LinkTypeEthernet
    /\ LET globalHeader == ParseGlobalHeader(Slice(StreamOf(file), 0, GlobalHeaderLen))
       IN /\ globalHeader.versionMajor = VersionMajor
          /\ globalHeader.versionMinor = VersionMinor
          /\ globalHeader.snaplen = Snaplen
    /\ \E k \in 0..Len(file.records) :
         /\ offset = BoundaryOf(file.records, k)
         /\ packetNumber = k + 1
         /\ Keys(readPackets) = Described(file.records, k)

\* C15 witness: a big-endian capture of two records was read to its end.
C15_Witness ==
  /\ outcome = "resolved"
  /\ file.magic = "be"
  /\ file.records = <<Record1, Record2>>
  /\ Len(readPackets) = 2

\* C16: whatever the chunking, the reader is where the one-chunk read of the
\* bytes received so far is, and the settled read returns what the
\* one-chunk read of the stream returns.
C16_ChunkingIndependent ==
  /\ (outcome = "reading" /\ received > 0)
       => Reader = DataHandler(NewReader, Slice(StreamOf(file), 0, received))
  /\ outcome # "reading"
       => /\ outcome = ReadWhole(StreamOf(file)).outcome
          /\ readPackets = ReadWhole(StreamOf(file)).packets

\* C16 witness: two packets were returned from a stream whose chunks ended
\* inside the header or inside a record.
C16_Witness ==
  /\ outcome = "resolved"
  /\ splitSeen
  /\ file.magic = "le"
  /\ Len(readPackets) = 2

\* C17: consumed bytes plus leftover are the bytes received, the leftover is
\* the unconsumed suffix of the stream, and the consumed bytes end at a
\* record boundary: a record not wholly buffered consumes nothing.
C17_LeftoverIsSuffix ==
  /\ offset + Len(leftover) = received
  /\ leftover = Slice(StreamOf(file), offset, received)
  /\ globalHeaderParsed
       => \E k \in 0..Len(file.records) :
            /\ offset = BoundaryOf(file.records, k)
            /\ k < Len(file.records)
                 => Len(leftover) < RecordHeaderLen + Len(file.records[k + 1].payload)

\* C17 witness: a record's header is buffered and its payload is not.
C17_Witness ==
  /\ outcome = "reading"
  /\ globalHeaderParsed
  /\ Len(readPackets) = 1
  /\ Len(leftover) > RecordHeaderLen

\* C18: a stream with a valid global header that ends inside a record header
\* or payload is resolved with the packets of the complete records before
\* the cut, in order.
C18_TruncatedStillResolves ==
  (file.magic # "bad" /\ file.size >= GlobalHeaderLen /\ received = file.size
   /\ outcome # "reading")
    => /\ outcome = "resolved"
       /\ Keys(readPackets) = Described(file.records, CompleteRecords(file))

\* C18 witness: the stream ended inside the second record and the packet of
\* the first was returned.
C18_Witness ==
  /\ outcome = "resolved"
  /\ Len(file.records) = 2
  /\ Len(leftover) > 0
  /\ Len(readPackets) = 1

\* C19: every frame timestamp is the integer ts_sec * 1000 + the integer
\* part of ts_usec / 1000.
C19_TimestampTruncated ==
  \A i \in 1..Len(readPackets) :
    LET rec == file.records[readPackets[i].number]
    IN readPackets[i].timestamp = <<rec.sec * 1000 + rec.usec \div 1000, 0>>

\* C21: every complete record of a capture yields exactly one packet of the
\* returned list, in file order, whatever could be decoded of it.
C21_OnePacketPerRecord ==
  (file.magic # "bad" /\ outcome = "resolved")
    => /\ Len(readPackets) = CompleteRecords(file)
       /\ \A i \in 1..Len(readPackets) : readPackets[i].number = i

\* ----------------------------------------------------- claims: the parser
\* C20: the 54-byte Ethernet / IPv4 / TCP frame with EtherType 0x0800,
\* protocol 6 and flags byte 0x02 decodes to the stack Ethernet, IP, TCP with
\* the flags SYN alone.
C20_SynFrameStack ==
  (parseDone /\ frame = SynFrame)
    => /\ Len(FrameBytes(frame)) = EthernetLen + IpMinLen + TcpMinLen
       /\ parsed # <<>>
       /\ parsed[1].protocols = <<"Ethernet", "IP", "TCP">>
       /\ parsed[1].flags = <<"SYN">>

\* A layer name is on the packet's protocol stack.
HasLayer(p, name) == \E i \in 1..Len(p.protocols) : p.protocols[i] = name

\* C22: a layer is on the stack only if the layer below it was decoded and
\* declared it: IP on Ethernet only under EtherType 0x0800, TCP, UDP and ICMP
\* only above an IP layer with protocol 6, 17 and 1.
C22_LayersDeclared ==
  (parseDone /\ parsed # <<>>)
    => /\ (frame.linkType = LinkTypeEthernet /\ HasLayer(parsed[1], "IP"))
            => /\ HasLayer(parsed[1], "Ethernet")
               /\ parsed[1].etherType = EtherTypeIPv4
       /\ HasLayer(parsed[1], "TCP")
            => HasLayer(parsed[1], "IP") /\ frame.protocol = ProtoTCP
       /\ HasLayer(parsed[1], "UDP")
            => HasLayer(parsed[1], "IP") /\ frame.protocol = ProtoUDP
       /\ HasLayer(parsed[1], "ICMP")
            => HasLayer(parsed[1], "IP") /\ frame.protocol = ProtoICMP

\* C23: the link-type selects where decoding starts: an IPv4 header behind a
\* 14-byte Ethernet header (1), a 16-byte cooked header (113), nothing (12)
\* or a 4-byte family tag (0) is decoded, and a frame of any other link-type
\* gets no network or transport layer.
C23_LinkTypeDispatch ==
  (parseDone /\ frame.size = FullFrame /\ frame.first = IpV4Ihl5
   /\ frame.etherType = EtherTypeIPv4)
    => /\ parsed # <<>>
       /\ frame.linkType \in {LinkTypeEthernet, LinkTypeCooked, LinkTypeRaw, LinkTypeNull}
            => HasLayer(parsed[1], "IP")
       /\ frame.linkType = LinkTypeEthernet => HasLayer(parsed[1], "Ethernet")
       /\ frame.linkType = LinkTypeOther => parsed[1].protocols = <<>>

\* ------------------------------------------------- claims: the PCAPNG reader
\* What a PCAPNG description says: after its first k blocks, the link-type
\* of the latest Interface Description Block and, per packet block, the
\* frame's number and length and the layers parsePacket finds under that
\* link-type.
RECURSIVE NgDescribed(_, _)
NgDescribed(blocks, k) ==
  IF k = 0
  THEN [linkType |-> LinkTypeEthernet, packets |-> <<>>]
  ELSE LET s == NgDescribed(blocks, k - 1)
           b == blocks[k]
       IN IF b.kind = "idb"
          THEN [s EXCEPT !.linkType = b.linkType]
          ELSE IF b.kind \in {"epb", "spb"}
          THEN [s EXCEPT !.packets = @ \o
                  <<[number |-> Len(s.packets) + 1,
                     length |-> Len(b.payload),
                     protocols |-> ParsePacket(b.payload, Len(s.packets) + 1, 0,
                                               Len(b.payload), s.linkType)[1].protocols]>>]
          ELSE s

Layers(pkts) ==
  [i \in 1..Len(pkts) |->
     [number |-> pkts[i].number, length |-> pkts[i].length,
      protocols |-> pkts[i].protocols]]

\* C24: a read of a well-formed PCAPNG stream resolves with one packet per
\* Enhanced or Simple Packet Block, in order, decoded with the link-type of
\* the latest Interface Description Block before it; other blocks are
\* skipped.
C24_NgOnePacketPerBlock ==
  outcome = "resolved"
    => Layers(readPackets) = NgDescribed(file.blocks, Len(file.blocks)).packets
\* ------------------------------------------------- claims: concurrent reads
\* C25: two reads of captures of opposite byte order, their data events
\* interleaved in any way, each resolve with the packet list the read
\* returns when it runs alone.
C25_ReadsIndependent ==
  /\ outcome = "resolved" => readPackets = ReadWhole(StreamOf(file)).packets
  /\ peer.outcome = "resolved" => peer.packets = ReadWhole(StreamOf(peerFile)).packets
\* --------------------------------------------- claims: loadFile and the reader
\* C26: on the bytes of any capture, loadFile succeeds exactly when
\* readPcapFile resolves, and then stores the packets readPcapFile returns,
\* with the same frame numbers, in the same order.
C26_LoadMatchesRead ==
  outcome # "reading"
    => /\ LoadBuffer(StreamOf(file)).success <=> outcome = "resolved"
       /\ outcome = "resolved" => LoadBuffer(StreamOf(file)).packets = readPackets
\* ---------------------------------------------------- claims: the statistics
\* The packets whose layer stack contains a name, the names in a list, and
\* a count read off a map.
Containing(pkts, name) ==
  {i \in 1..Len(pkts) : \E j \in 1..Len(pkts[i].protocols) : pkts[i].protocols[j] = name}

NamesIn(pkts) ==
  {pkts[i].protocols[j] : <<i, j>> \in
     {<<i, j>> \in (1..Len(pkts)) \X (1..3) : j <= Len(pkts[i].protocols)}}

CountOf(map, key) == IF key \in DOMAIN map THEN map[key] ELSE 0

SameLength(pkts) == \A i \in 1..Len(pkts) : pkts[i].length = pkts[1].length

SameStack(pkts) == \A i \in 1..Len(pkts) : pkts[i].protocols = pkts[1].protocols

EmptyStats(st) ==
  /\ st.totalPackets = 0
  /\ st.packetSizes.total = 0
  /\ st.protocols = NoCounts
  /\ st.srcIPs = NoCounts
  /\ st.dstIPs = NoCounts
  /\ st.packetSizes.average[1] = 0
  /\ st.duration = 0

UniformSizes(st, pkts) ==
  /\ st.packetSizes.min = <<pkts[1].length>>
  /\ st.packetSizes.max = pkts[1].length
  /\ st.packetSizes.average[1] = pkts[1].length * st.packetSizes.average[2]

RECURSIVE SumCounts(_, _)
SumCounts(map, keys) ==
  IF keys = {} THEN 0
  ELSE LET k == CHOOSE x \in keys : TRUE
       IN map[k] + SumCounts(map, keys \ {k})

RECURSIVE SumStacks(_, _)
SumStacks(pkts, i) ==
  IF i > Len(pkts) THEN 0 ELSE Len(pkts[i].protocols) + SumStacks(pkts, i + 1)

C28_CountPerLayer ==
  statsResult # <<>>
    => /\ \A name \in NamesIn(statsInput) \cup DOMAIN statsResult[1].protocols :
            CountOf(statsResult[1].protocols, name)
              = Cardinality(Containing(statsInput, name))
       /\ SumCounts(statsResult[1].protocols, DOMAIN statsResult[1].protocols)
            = SumStacks(statsInput, 1)

C28_Witness ==
  /\ statsResult # <<>>
  /\ Len(statsInput) >= 2
  /\ statsInput[1].protocols = <<"Ethernet", "IP", "TCP">>
  /\ statsInput[2].protocols = <<"Ethernet">>

FramesOf(f) ==
  IF IsNg(f)
  THEN Cardinality({i \in 1..Len(f.blocks) : f.blocks[i].kind \in {"epb", "spb"}})
  ELSE Len(f.records)

\* C30: when a read has resolved, progressCallback was called once after
\* every ProgressEvery-th frame, with the number of frames read so far, and
\* once at the end with current = total = the file size and the number of
\* packets returned; for the classic and the PCAPNG reader alike.
C30_ProgressCadence ==
  outcome = "resolved"
    => /\ Len(progress) = FramesOf(file) \div ProgressEvery + 1
       /\ \A k \in 1..(Len(progress) - 1) :
            /\ progress[k].packets = k * ProgressEvery
            /\ progress[k].total = file.size
            /\ progress[k].current <= file.size
       /\ progress[Len(progress)] =
            [current |-> file.size, total |-> file.size, packets |-> Len(readPackets)]
\* ------------------------------------------ claims: the replay engine, again
\* A session that has ended with every packet of the buffer delivered.
Completed == ~isCapturing /\ delivered = AllDelivered

\* C31: resume() called on a paused session clears isPaused and at once
\* delivers the packet at currentIndex (or, when none is left, ends the
\* session); and a session that is running after a resume either is paused,
\* stopped, reloaded or reset again, or ends having delivered each of the N
\* packets of the buffer once, in order.
C31_ResumeCompletes ==
  /\ [][(Paused /\ lastOp' = "resume")
          => /\ ~isPaused'
             /\ IF currentIndex < Len(packets)
                THEN /\ delivered' = Append(delivered, [index |-> currentIndex,
                                                        packet |-> packets[currentIndex + 1]])
                     /\ currentIndex' = currentIndex + 1
                     /\ isCapturing'
                ELSE /\ delivered' = delivered
                     /\ ~isCapturing']_vars
  /\ (lastOp = "resume" /\ Running)
       ~> (lastOp \in {"pause", "stop", "loadFile", "reset"} \/ Completed)

\* C31 witness: resume() on a paused session of three packets has just
\* delivered the last of them.
C31_Witness ==
  /\ lastOp = "resume"
  /\ calls.packet
  /\ Running
  /\ Len(packets) = 3
  /\ delivered = AllDelivered
\* C32: start() called after stop() delivers buffer entry 0 first, and the
\* replay it begins goes on, unless it is interrupted, to deliver the N
\* packets of the buffer in order and to end.
C32_RestartFromFirst ==
  /\ [][(lastOp = "stop" /\ lastOp' = "start" /\ Len(packets) >= 1)
          => /\ delivered' = <<[index |-> 0, packet |-> packets[1]]>>
             /\ currentIndex' = 1
             /\ isCapturing' /\ ~isPaused'
             /\ uninterrupted']_vars
  /\ (lastOp = "start" /\ uninterrupted /\ Len(delivered) = 1)
       ~> (~uninterrupted \/ Completed)

\* C32 witness: start() has just delivered entry 0 of three, beginning a
\* fresh replay while a timeout of an earlier run is still pending.
C32_Witness ==
  /\ lastOp = "start"
  /\ uninterrupted
  /\ Len(packets) = 3
  /\ delivered = <<[index |-> 0, packet |-> packets[1]]>>
  /\ Cardinality(armed) = 2
\* C33: a session is never paused while it is not capturing.
C33_PausedImpliesCapturing == isPaused => isCapturing
\* C34: currentIndex always lies between 0 and the length of the packet
\* buffer, also after reset() and after a load that replaces the buffer while
\* timeouts of an earlier run are pending.
C34_IndexWithinBuffer == 0 <= currentIndex /\ currentIndex <= Len(packets)

\* A load has just replaced the buffer by a one-packet capture while two
\* timeouts of an earlier run, which had delivered at least two packets,
\* are still pending.
C34_Witness ==
  /\ lastOp = "loadFile"
  /\ lastResult = "ok"
  /\ Len(packets) = 1
  /\ Cardinality(armed) = 2
  /\ currentIndex = 0
\* C35: whenever sendPacket delivers a packet and computes the delay of the
\* next one, the speed it divides by lies within [MinSpeed, MaxSpeed], whether
\* setSpeed or the speed option of start() stored it.
C35_SpeedWithinRange ==
  [][currentIndex' > currentIndex
       => /\ delayOf' = Delay(timeScale', speed')
          /\ MinSpeed <= speed'
          /\ speed' <= MaxSpeed]_vars
\* C36: a load that fails, by loadFile or by the sim-load-file handler around
\* it, leaves the packet buffer, currentIndex and the lifecycle flags as they
\* were before the call.
C36_FailedLoadKeepsSession ==
  [][(lastOp' \in {"loadFile", "simLoadFile"} /\ lastResult' = "failure")
       => UNCHANGED <<packets, currentIndex, isCapturing, isPaused>>]_vars
\* C37: validatePcapFile returns true for a file exactly when readPcapFile on
\* that file does not fail with an invalid-format error, so every capture the
\* reader takes, classic of either byte order or PCAPNG, passes validation.
C37_ValidateAgreesWithReader ==
  outcome # "reading" => (ValidatePcapFile(FileBytes(file)) <=> outcome # "rejected")
\* C38: for every non-empty packet list the statistics have
\* min <= average <= max for the packet sizes and first <= last with
\* duration = last - first >= 0 for the timestamps, also when packets of
\* length 0 or timestamp 0 are in the list.  The average is the pair
\* <<total, count>>; no timestamp seen is first = last = null, duration 0.
C38_StatsOrdered ==
  (statsResult # <<>> /\ Len(statsInput) >= 1)
    => LET r == statsResult[1]
           sizes == r.packetSizes
           times == r.timestamps
       IN /\ sizes.min # Infinity
          /\ sizes.min[1] * sizes.average[2] <= sizes.average[1]
          /\ sizes.average[1] <= sizes.max * sizes.average[2]
          /\ IF times.first = <<>> \/ times.last = <<>>
             THEN times.first = times.last /\ r.duration = 0
             ELSE /\ times.first[1] <= times.last[1]
                  /\ r.duration = times.last[1] - times.first[1]
                  /\ r.duration >= 0

====
